---- MODULE Spec2Model ----
(***************************************************************************)
(* A model of src/src/text-viewer-window.c: one TextViewerWindow, its      *)
(* "open" action, the file-selection dialog's response, the asynchronous   *)
(* whole-file load with its completion callback, and the handler of the    *)
(* text buffer's notify::cursor-position signal.                           *)
(*                                                                         *)
(* Every callback runs to completion on the single GTK main loop, so each  *)
(* callback is one action.  The buffer operations a callback performs emit *)
(* notify::cursor-position synchronously; the handler is applied inside    *)
(* the operation that emits it, and the text and title it ran under are    *)
(* recorded in the history variable seen.                                  *)
(***************************************************************************)
EXTENDS Integers, Sequences, FiniteSets, TLC

(***************************************************************************)
(* Bounds of the model.                                                    *)
(***************************************************************************)
MaxLoads == 2      \* loads started in one behaviour
MaxDialogs == 2    \* file-selection dialogs open at once
MaxTextLen == 1    \* length of text up to which the user may type

(***************************************************************************)
(* The files the dialog can return.  A GFile is identified by its path;    *)
(* the file system says what reading it and querying its info give.        *)
(*   bytes        what g_file_load_contents_finish stores in contents      *)
(*   error        the GError message of a failed read, NoError otherwise   *)
(*   info         whether g_file_query_info returns a GFileInfo            *)
(*   displayName  its standard::display-name attribute, NoName when the    *)
(*                GFileInfo does not hold the attribute                    *)
(*   basename     what g_file_get_basename returns                         *)
(***************************************************************************)
NoError == "(no error)"
NoFile == "(no file)"
NoName == "(null)"
NL == 10

FileSystem ==
  ( "/docs/caf%E9.txt" :>
      [bytes |-> <<97, 10, 98>>, error |-> NoError, info |-> TRUE,
       displayName |-> "caf?.txt", basename |-> "caf%E9.txt"] ) @@
  ( "/mnt/euro" :>
      [bytes |-> <<226, 130, 172>>, error |-> NoError, info |-> FALSE,
       displayName |-> "", basename |-> "euro"] ) @@
  ( "/docs/empty" :>
      [bytes |-> <<>>, error |-> NoError, info |-> TRUE,
       displayName |-> "empty", basename |-> "empty"] ) @@
  ( "/mnt/share/b" :>
      [bytes |-> <<98>>, error |-> NoError, info |-> TRUE,
       displayName |-> NoName, basename |-> "b"] ) @@
  ( "/docs/latin1.txt" :>
      [bytes |-> <<97, 233>>, error |-> NoError, info |-> TRUE,
       displayName |-> "latin1.txt", basename |-> "latin1.txt"] ) @@
  ( "/docs/missing" :>
      [bytes |-> <<>>, error |-> "No such file or directory", info |-> FALSE,
       displayName |-> "", basename |-> "missing"] )

Files == DOMAIN FileSystem

\* The characters the user types into the text view.
TypedChars == {97, NL}

\* What the UI template gives the window before any callback has run.
TemplateTitles == {"", "Text Viewer"}
TemplateLabels == {"", "Ln 0, Col 0"}

VARIABLES
  title,      \* the window title
  text,       \* the text buffer's contents, a sequence of code points
  cursor,     \* the buffer's cursor-position property, a character offset
  label,      \* the text of the cursor_pos label
  diag,       \* the lines written to standard error
  loads,      \* the loads started so far, in the order they were started
  dialogs,    \* the number of file-selection dialogs open
  dismissed,  \* whether a dialog has been dismissed without a file
  window,     \* "alive", "destroyed", or "used after destroy" once a callback
              \* has used the widgets of the destroyed window
  seen        \* the text and title the cursor-position handler ran under, run
              \* by run, in the last step that ran it

vars ==
  <<title, text, cursor, label, diag, loads, dialogs, dismissed, window, seen>>

(***************************************************************************)
(* UTF-8, as g_utf8_validate(contents, length, NULL) decides it and as the *)
(* text buffer counts characters.                                          *)
(***************************************************************************)
IsCont(b) == b >= 128 /\ b <= 191

\* The number of bytes of the sequence that lead byte b starts, 0 if none.
Utf8SeqLen(b) ==
  IF b >= 1 /\ b <= 127 THEN 1
  ELSE IF b >= 194 /\ b <= 223 THEN 2
  ELSE IF b >= 224 /\ b <= 239 THEN 3
  ELSE IF b >= 240 /\ b <= 244 THEN 4
  ELSE 0

\* The code point of the n-byte sequence at position i of s.
Utf8CodePoint(s, i, n) ==
  IF n = 1 THEN s[i]
  ELSE IF n = 2 THEN (s[i] - 192) * 64 + (s[i+1] - 128)
  ELSE IF n = 3 THEN (s[i] - 224) * 4096 + (s[i+1] - 128) * 64 + (s[i+2] - 128)
  ELSE (s[i] - 240) * 262144 + (s[i+1] - 128) * 4096
       + (s[i+2] - 128) * 64 + (s[i+3] - 128)

\* Whether a well-formed character starts at position i of s.
Utf8CharAt(s, i) ==
  LET n == Utf8SeqLen(s[i]) IN
    /\ n > 0
    /\ i + n - 1 <= Len(s)
    /\ \A k \in 1..(n-1) : IsCont(s[i+k])
    /\ LET cp == Utf8CodePoint(s, i, n) IN
         /\ n = 3 => cp >= 2048 /\ ~(cp >= 55296 /\ cp <= 57343)
         /\ n = 4 => cp >= 65536 /\ cp <= 1114111

RECURSIVE Utf8ValidFrom(_, _)
Utf8ValidFrom(s, i) ==
  IF i > Len(s) THEN TRUE
  ELSE IF ~Utf8CharAt(s, i) THEN FALSE
  ELSE Utf8ValidFrom(s, i + Utf8SeqLen(s[i]))

Utf8Validate(s) == Utf8ValidFrom(s, 1)

RECURSIVE Utf8DecodeFrom(_, _)
Utf8DecodeFrom(s, i) ==
  IF i > Len(s) THEN <<>>
  ELSE LET n == Utf8SeqLen(s[i]) IN
         <<Utf8CodePoint(s, i, n)>> \o Utf8DecodeFrom(s, i + n)

\* The characters of valid UTF-8 bytes.
Utf8Decode(s) == Utf8DecodeFrom(s, 1)

(***************************************************************************)
(* The widgets of the window, as one record w:                             *)
(*   [title, text, cursor, label, seen].                                   *)
(* The operations below are the toolkit calls the callbacks make.          *)
(***************************************************************************)
Window ==
  [title |-> title, text |-> text, cursor |-> cursor, label |-> label,
   seen |-> <<>>]

\* gtk_text_iter_get_line of the iterator at offset off: the lines that end
\* before it.
RECURSIVE IterGetLine(_, _)
IterGetLine(chars, off) ==
  IF off = 0 THEN 0
  ELSE IterGetLine(chars, off - 1) + (IF chars[off] = NL THEN 1 ELSE 0)

\* gtk_text_iter_get_line_offset: the characters between the start of the
\* iterator's line and the iterator.
RECURSIVE IterGetLineOffset(_, _)
IterGetLineOffset(chars, off) ==
  IF off = 0 THEN 0
  ELSE IF chars[off] = NL THEN 0
  ELSE IterGetLineOffset(chars, off - 1) + 1

\* g_strdup_printf("Ln %d, Col %d", line, col)
CursorStr(line, col) == "Ln " \o ToString(line) \o ", Col " \o ToString(col)

\* The handler, had it shown the iterator's 0-based line and column.
UpdateCursorPositionZeroBased(w) ==
  LET cursor_pos == w.cursor
      cursor_str == CursorStr(IterGetLine(w.text, cursor_pos),
                              IterGetLineOffset(w.text, cursor_pos))
  IN [w EXCEPT !.label = cursor_str,
               !.seen = Append(@, [text |-> w.text, title |-> w.title])]

\* The handler, had it written the string to the window title.
UpdateCursorPositionSetsTitle(w) ==
  LET cursor_pos == w.cursor
      cursor_str == CursorStr(IterGetLine(w.text, cursor_pos) + 1,
                              IterGetLineOffset(w.text, cursor_pos) + 1)
  IN [w EXCEPT !.title = cursor_str,
               !.seen = Append(@, [text |-> w.text, title |-> w.title])]

\* text_view_window__update_cursor_postion, the handler of the buffer's
\* notify::cursor-position.
UpdateCursorPosition(w) ==
  LET cursor_pos == w.cursor
      cursor_str == CursorStr(IterGetLine(w.text, cursor_pos) + 1,
                              IterGetLineOffset(w.text, cursor_pos) + 1)
  IN [w EXCEPT !.label = cursor_str,
               !.seen = Append(@, [text |-> w.text, title |-> w.title])]

\* gtk_text_buffer_delete of the characters between offsets from and to.  The
\* cursor, a mark, stays with the text around it; deleting nothing emits
\* nothing.
TextBufferDelete(w, from, to) ==
  IF from = to THEN w
  ELSE UpdateCursorPosition(
         [w EXCEPT !.text = SubSeq(w.text, 1, from)
                            \o SubSeq(w.text, to + 1, Len(w.text)),
                   !.cursor = IF w.cursor >= to THEN w.cursor - (to - from)
                              ELSE IF w.cursor > from THEN from
                              ELSE w.cursor])

\* gtk_text_buffer_insert of chars at offset at.  The cursor has right
\* gravity: text inserted at the cursor ends up before it.  Inserting nothing
\* emits nothing.
TextBufferInsert(w, at, chars) ==
  IF Len(chars) = 0 THEN w
  ELSE UpdateCursorPosition(
         [w EXCEPT !.text = SubSeq(w.text, 1, at) \o chars
                            \o SubSeq(w.text, at + 1, Len(w.text)),
                   !.cursor = IF w.cursor >= at THEN w.cursor + Len(chars)
                              ELSE w.cursor])

\* Setting the text, had it inserted without deleting what was there.
TextBufferSetTextKeepsOld(w, chars) == TextBufferInsert(w, 0, chars)

\* gtk_text_buffer_set_text: delete everything, then insert at the start.
TextBufferSetText(w, chars) ==
  TextBufferInsert(TextBufferDelete(w, 0, Len(w.text)), 0, chars)

\* Placing the cursor, had it notified only when the offset changes.
TextBufferPlaceCursorIfMoved(w, where) ==
  IF w.cursor = where THEN w
  ELSE UpdateCursorPosition([w EXCEPT !.cursor = where])

\* gtk_text_buffer_place_cursor: moving the insert mark always notifies.
TextBufferPlaceCursor(w, where) ==
  UpdateCursorPosition([w EXCEPT !.cursor = where])

\* gtk_window_set_title
WindowSetTitle(w, name) == [w EXCEPT !.title = name]

(***************************************************************************)
(* open_file_complete                                                      *)
(***************************************************************************)
\* The display name the callback computes before it looks at the error.
DisplayName(file) ==
  IF FileSystem[file].info THEN FileSystem[file].displayName
  ELSE FileSystem[file].basename

\* The two lines the callback prints, as the pieces g_printerr puts together.
UnableToOpen(file) ==
  <<"Unable to open \"", file, "\": ", FileSystem[file].error, "\n">>

\* The line about the encoding, had it named the file by its base name.
UnableToLoadBasename(file) ==
  <<"Unable to load the contents of \"", FileSystem[file].basename,
    "\": the file is not encoded with UTF-8\n">>

UnableToLoad(file) ==
  <<"Unable to load the contents of \"", file,
    "\": the file is not encoded with UTF-8\n">>

\* The test of the error, had the callback not looked at it.
ReadFailedUnchecked(file) == FALSE

\* error != NULL
ReadFailed(file) == FileSystem[file].error # NoError

\* The widget updates, had the cursor been left where set_text put it.
DisplayContentsNoPlaceCursor(w, contents, display_name) ==
  WindowSetTitle(TextBufferSetText(w, Utf8Decode(contents)), display_name)

\* The widget updates, had the title been set before the text.
DisplayContentsTitleFirst(w, contents, display_name) ==
  LET afterTitle == WindowSetTitle(w, display_name)
      afterText == TextBufferSetText(afterTitle, Utf8Decode(contents))
  IN TextBufferPlaceCursor(afterText, 0)

\* The widget updates of a successful load, in the order of the code.
DisplayContents(w, contents, display_name) ==
  LET afterText == TextBufferSetText(w, Utf8Decode(contents))
      afterCursor == TextBufferPlaceCursor(afterText, 0)
  IN WindowSetTitle(afterCursor, display_name)

\* The widgets after a callback that left them as w.
SetWindow(w) ==
  /\ title' = w.title
  /\ text' = w.text
  /\ cursor' = w.cursor
  /\ label' = w.label
  /\ seen' = w.seen

\* The callback on the load at position i of loads.  It is given self as it
\* was when the load was started: the load holds no reference on the window,
\* so the callback also runs after the window was destroyed, and then a
\* successful load uses the widgets of a window that is gone, after which
\* nothing is known of the process.
OpenFileComplete(i) ==
  /\ window # "used after destroy"
  /\ i \in 1..Len(loads)
  /\ loads[i].state = "Loading"
  /\ LET file == loads[i].file
         contents == FileSystem[file].bytes
         display_name == DisplayName(file)
     IN IF ReadFailed(file) THEN
          /\ diag' = Append(diag, UnableToOpen(file))
          /\ loads' = [loads EXCEPT ![i].state = "Failed"]
          /\ UNCHANGED <<title, text, cursor, label, seen, window>>
        ELSE IF ~Utf8Validate(contents) THEN
          /\ diag' = Append(diag, UnableToLoad(file))
          /\ loads' = [loads EXCEPT ![i].state = "Failed"]
          /\ UNCHANGED <<title, text, cursor, label, seen, window>>
        ELSE IF window = "alive" THEN
          /\ SetWindow(DisplayContents(Window, contents, display_name))
          /\ loads' = [loads EXCEPT ![i].state = "Displayed"]
          /\ UNCHANGED <<diag, window>>
        ELSE
          /\ window' = "used after destroy"
          /\ loads' = [loads EXCEPT ![i].state = "Undefined"]
          /\ UNCHANGED <<title, text, cursor, label, seen, diag>>
  /\ UNCHANGED <<dialogs, dismissed>>

(***************************************************************************)
(* open_file, on_open_response, text_viewer_window__open_file_dialog       *)
(***************************************************************************)
\* Starting a load, had a file already being loaded not been loaded again.
OpenFileDeduplicated(file) ==
  IF \E j \in 1..Len(loads) :
       loads[j].file = file /\ loads[j].state = "Loading"
  THEN loads
  ELSE Append(loads, [file |-> file, state |-> "Loading"])

\* Starting a load, had the read been started twice.
OpenFileTwice(file) ==
  Append(Append(loads, [file |-> file, state |-> "Loading"]),
         [file |-> file, state |-> "Loading"])

\* g_file_load_contents_async: one more load in flight.
OpenFile(file) ==
  Append(loads, [file |-> file, state |-> "Loading"])

\* The response, had a dismissed dialog been reported on standard error.
OnOpenResponseWarns(file) ==
  /\ window # "used after destroy"
  /\ dialogs > 0
  /\ dialogs' = dialogs - 1
  /\ IF file # NoFile
       THEN /\ Len(loads) < MaxLoads
            /\ loads' = OpenFile(file)
            /\ UNCHANGED <<dismissed, diag>>
       ELSE /\ loads' = loads
            /\ dismissed' = TRUE
            /\ diag' = Append(diag, <<"No file selected\n">>)
  /\ UNCHANGED <<title, text, cursor, label, seen, window>>

\* The response of one open dialog: file is the chosen file, or NoFile when
\* the dialog was dismissed.  self is only passed on to open_file.
OnOpenResponse(file) ==
  /\ window # "used after destroy"
  /\ dialogs > 0
  /\ dialogs' = dialogs - 1
  /\ IF file # NoFile
       THEN /\ Len(loads) < MaxLoads
            /\ loads' = OpenFile(file)
            /\ UNCHANGED dismissed
       ELSE /\ loads' = loads
            /\ dismissed' = TRUE
  /\ UNCHANGED <<title, text, cursor, label, diag, seen, window>>

\* The "open" action: a new dialog on every activation.
OpenFileDialog ==
  /\ window = "alive"
  /\ dialogs < MaxDialogs
  /\ dialogs' = dialogs + 1
  /\ UNCHANGED <<title, text, cursor, label, diag, loads, dismissed, seen,
                 window>>

(***************************************************************************)
(* The user in the text view: each of these makes the buffer emit          *)
(* notify::cursor-position, which runs the handler.                        *)
(***************************************************************************)
MoveCursor(where) ==
  /\ window = "alive"
  /\ where \in 0..Len(text)
  /\ SetWindow(TextBufferPlaceCursor(Window, where))
  /\ UNCHANGED <<diag, loads, dialogs, dismissed, window>>

TypeChar(c) ==
  /\ window = "alive"
  /\ Len(text) < MaxTextLen
  /\ SetWindow(TextBufferInsert(Window, cursor, <<c>>))
  /\ UNCHANGED <<diag, loads, dialogs, dismissed, window>>

Backspace ==
  /\ window = "alive"
  /\ cursor > 0
  /\ SetWindow(TextBufferDelete(Window, cursor - 1, cursor))
  /\ UNCHANGED <<diag, loads, dialogs, dismissed, window>>

(***************************************************************************)
(* text_viewer_window_init, and the specification                          *)
(***************************************************************************)
Init ==
  /\ title \in TemplateTitles
  /\ text = <<>>
  /\ cursor = 0
  /\ label \in TemplateLabels
  /\ diag = <<>>
  /\ loads = <<>>
  /\ dialogs = 0
  /\ dismissed = FALSE
  /\ window = "alive"
  /\ seen = <<>>

Next ==
  \/ OpenFileDialog
  \/ \E file \in Files \cup {NoFile} : OnOpenResponse(file)
  \/ \E i \in 1..MaxLoads : OpenFileComplete(i)
  \/ \E where \in 0..Len(text) : MoveCursor(where)
  \/ \E c \in TypedChars : TypeChar(c)
  \/ Backspace

Spec == Init /\ [][Next]_vars

\* The behaviours in which a file is chosen only when no load is in flight:
\* every load completes before the next one starts.
NoLoadPending == \A j \in 1..Len(loads) : loads[j].state # "Loading"

NextSequential ==
  \/ OpenFileDialog
  \/ OnOpenResponse(NoFile)
  \/ \E file \in Files : NoLoadPending /\ OnOpenResponse(file)
  \/ \E i \in 1..MaxLoads : OpenFileComplete(i)
  \/ \E where \in 0..Len(text) : MoveCursor(where)
  \/ \E c \in TypedChars : TypeChar(c)
  \/ Backspace

SpecSequential == Init /\ [][NextSequential]_vars

\* The behaviours in which no load completes before a second one has been
\* started: the first two loads are in flight together.
NextRace ==
  \/ OpenFileDialog
  \/ \E file \in Files \cup {NoFile} : OnOpenResponse(file)
  \/ \E i \in 1..MaxLoads : Len(loads) >= 2 /\ OpenFileComplete(i)
  \/ \E where \in 0..Len(text) : MoveCursor(where)
  \/ \E c \in TypedChars : TypeChar(c)
  \/ Backspace

SpecRace == Init /\ [][NextRace]_vars

\* The toolkit tears the window down (it is closed).  Neither the dialog nor
\* a load in flight holds a reference on it or is cancelled.
WindowDestroy ==
  /\ window = "alive"
  /\ window' = "destroyed"
  /\ UNCHANGED <<title, text, cursor, label, diag, loads, dialogs, dismissed,
                 seen>>

\* The behaviours in which the window may also be destroyed.
NextTeardown ==
  \/ Next
  \/ WindowDestroy

SpecTeardown == Init /\ [][NextTeardown]_vars

TypeOK ==
  /\ cursor \in 0..Len(text)
  /\ dialogs \in 0..MaxDialogs
  /\ Len(loads) <= MaxLoads
  /\ window \in {"alive", "destroyed", "used after destroy"}

(***************************************************************************)
(* What the properties below compare the window with: the characters of    *)
(* each file that holds valid UTF-8, written out, and the files whose load *)
(* fails.                                                                  *)
(***************************************************************************)
DecodedContents ==
  ( "/docs/caf%E9.txt" :> <<97, 10, 98>> ) @@
  ( "/mnt/euro" :> <<8364>> ) @@
  ( "/docs/empty" :> <<>> ) @@
  ( "/mnt/share/b" :> <<98>> )

ValidFiles == DOMAIN DecodedContents
NotUtf8Files == {"/docs/latin1.txt"}
UnreadableFiles == {"/docs/missing"}

\* The step is the completion callback of load i, which always changes the
\* state of that load and of no other.
Completes(i) ==
  /\ i \in 1..Len(loads)
  /\ Len(loads') = Len(loads)
  /\ loads'[i].state # loads[i].state
  /\ OpenFileComplete(i)

\* A printed line holds the string piece.
Holds(line, piece) == \E k \in 1..Len(line) : line[k] = piece

\* The step printed exactly one line, after what was printed before.
PrintsOneLine == Len(diag') = Len(diag) + 1 /\ SubSeq(diag', 1, Len(diag)) = diag

\* The line the step printed.
PrintedLine == diag'[Len(diag')]

\* C1: when the load of a valid UTF-8 file completes, whatever the window
\* showed before, the title is the file's display name, the text is the
\* file's characters and the cursor is at offset 0.
C1_SuccessfulLoadDisplaysFile ==
  [][\A i \in 1..MaxLoads :
       (Completes(i) /\ loads[i].file \in ValidFiles) =>
         /\ title' = DisplayName(loads[i].file)
         /\ text' = DecodedContents[loads[i].file]
         /\ cursor' = 0]_vars

\* A load has just completed over a window that showed other text under
\* another title: the handler ran three times (delete, insert, place cursor)
\* and first under the earlier title.
C1_Witness ==
  \E i \in 1..Len(loads) :
    /\ loads[i].state = "Displayed"
    /\ title = DisplayName(loads[i].file)
    /\ text = DecodedContents[loads[i].file]
    /\ cursor = 0
    /\ Len(seen) = 3
    /\ seen[1].title # title

\* C2: when the load of a readable file that is not valid UTF-8 completes,
\* the title and the text stay as they were and exactly one line is printed,
\* which holds the file's path.
C2_InvalidUtf8LeavesWindow ==
  [][\A i \in 1..MaxLoads :
       (Completes(i) /\ loads[i].file \in NotUtf8Files) =>
         /\ UNCHANGED <<title, text>>
         /\ PrintsOneLine
         /\ Holds(PrintedLine, loads[i].file)]_vars

\* The load of the Latin-1 file has failed while the window shows a document
\* loaded earlier, and its line is the last one printed.
C2_Witness ==
  /\ \E i \in 1..Len(loads) :
       loads[i].file \in NotUtf8Files /\ loads[i].state = "Failed"
  /\ \E j \in 1..Len(loads) :
       loads[j].state = "Displayed" /\ title = DisplayName(loads[j].file)
  /\ text # <<>>
  /\ diag # <<>>
  /\ Holds(diag[Len(diag)], "/docs/latin1.txt")

\* C3: when a read fails, the completion changes none of title, text, cursor
\* and label, prints a line holding the file's path and the error's message,
\* and the "open" action can still be activated and answered afterwards.
C3_ReadFailureLeavesWindow ==
  /\ [][\A i \in 1..MaxLoads :
          (Completes(i) /\ loads[i].file \in UnreadableFiles) =>
            /\ UNCHANGED <<title, text, cursor, label>>
            /\ PrintsOneLine
            /\ Holds(PrintedLine, loads[i].file)
            /\ Holds(PrintedLine, "No such file or directory")
            /\ dialogs' = dialogs]_vars
  /\ []((\E i \in 1..Len(loads) : loads[i].state = "Failed") =>
          /\ dialogs < MaxDialogs => ENABLED OpenFileDialog
          /\ dialogs > 0 => ENABLED OnOpenResponse(NoFile)
          /\ dialogs > 0 /\ Len(loads) < MaxLoads =>
               \A file \in Files : ENABLED OnOpenResponse(file))

\* The load of the missing file has failed over a window that shows an
\* edited document, and a dialog opened afterwards is waiting for its answer.
C3_Witness ==
  /\ \E i \in 1..Len(loads) :
       loads[i].file \in UnreadableFiles /\ loads[i].state = "Failed"
  /\ diag # <<>>
  /\ Holds(diag[Len(diag)], "/docs/missing")
  /\ text # <<>>
  /\ cursor > 0
  /\ dialogs > 0

\* The cursor's line and column, counted from the text: the line feeds before
\* the offset, and the characters after the last of them.
LineOf(chars, off) == Cardinality({k \in 1..off : chars[k] = NL})

ColOf(chars, off) ==
  off - (CHOOSE m \in 0..off :
           /\ m = 0 \/ chars[m] = NL
           /\ \A k \in (m+1)..off : chars[k] # NL)

\* C4: once the cursor has moved (the handler has run), in every state and
\* for every offset from 0 to the length of the text, the label reads
\* "Ln {line+1}, Col {col+1}" for the line and column of the cursor.
C4_LabelShowsCursor ==
  seen # <<>> =>
    /\ cursor \in 0..Len(text)
    /\ label = "Ln " \o ToString(LineOf(text, cursor) + 1)
                 \o ", Col " \o ToString(ColOf(text, cursor) + 1)

\* The cursor stands at the end of a document of two lines.
C4_Witness ==
  /\ text = <<97, NL, 98>>
  /\ cursor = Len(text)
  /\ label = "Ln 2, Col 2"

\* C5: when the dialog is dismissed without a file, the title, the text, the
\* cursor and the label stay as they were, no load is started and nothing is
\* printed.
C5_CancelChangesNothing ==
  [][OnOpenResponse(NoFile) =>
       UNCHANGED <<title, text, cursor, label, loads, diag>>]_vars

\* A dialog has been dismissed over a window that shows an edited document
\* while a load is in flight.
C5_Witness ==
  /\ dismissed
  /\ \E i \in 1..Len(loads) : loads[i].state = "Loading"
  /\ text # <<>>
  /\ cursor > 0

\* C6: when file A is loaded (or fails to load) and, after that load has
\* completed, a valid file B is loaded, the completion of B leaves the title,
\* the text and the cursor those of B, with nothing of A in the text.
C6_SequentialLoadsShowSecond ==
  [][\A i \in 2..MaxLoads :
       (Completes(i) /\ loads[i].file \in ValidFiles) =>
         /\ \A a \in 1..(i-1) : loads[a].state \in {"Displayed", "Failed"}
         /\ title' = DisplayName(loads[i].file)
         /\ text' = DecodedContents[loads[i].file]
         /\ cursor' = 0]_vars

\* A was displayed and had text; B, another file, has just completed: the
\* handler first ran on the emptied buffer under A's title.
C6_Witness ==
  /\ Len(loads) = 2
  /\ loads[1].state = "Displayed"
  /\ loads[2].state = "Displayed"
  /\ loads[1].file # loads[2].file
  /\ DecodedContents[loads[1].file] # <<>>
  /\ seen # <<>>
  /\ seen[1] = [text |-> <<>>, title |-> DisplayName(loads[1].file)]
  /\ title = DisplayName(loads[2].file)
  /\ text = DecodedContents[loads[2].file]
  /\ cursor = 0

\* The completion of load i displays its file.
Displays(i) == Completes(i) /\ loads'[i].state = "Displayed"

\* C7, as claimed: during a successful load no run of a handler finds the new
\* text under the previous title, or the new title over the previous text.
C7_NoHandlerSeesHalfUpdate ==
  [][\A i \in 1..MaxLoads : Displays(i) =>
       \A k \in 1..Len(seen') :
         /\ ~(text' # text /\ title' # title
              /\ seen'[k].text = text' /\ seen'[k].title = title)
         /\ ~(text' # text /\ title' # title
              /\ seen'[k].text = text /\ seen'[k].title = title')]_vars

\* C7, amended: a successful load sets the text and the title in one
\* callback, the title changes in no other step, and no run of the handler
\* finds the new title before the text is set; but the cursor-position
\* handler does run, last of all on the new text, under the previous title.
C7_UpdatedInOneCallback ==
  [][/\ \A i \in 1..MaxLoads : Displays(i) =>
          /\ title' = DisplayName(loads[i].file)
          /\ text' = DecodedContents[loads[i].file]
          /\ seen' # <<>>
          /\ \A k \in 1..Len(seen') : seen'[k].title = title
          /\ seen'[Len(seen')].text = text'
     /\ title' # title => \E i \in 1..MaxLoads : Displays(i)]_vars

\* A load has just completed with a new title and a new text, and the
\* handler's last run found the new text under the previous title.
C7_Witness ==
  /\ \E i \in 1..Len(loads) :
       loads[i].state = "Displayed" /\ title = DisplayName(loads[i].file)
  /\ seen # <<>>
  /\ seen[Len(seen)].text = text
  /\ seen[Len(seen)].title # title
  /\ seen[1].text # text

\* Another load than i is in flight.
OtherPending(i) ==
  \E j \in 1..Len(loads) : j # i /\ loads[j].state = "Loading"

\* C8: a load started while another is in flight is added to the loads in
\* flight, even for the same file, and the earlier one stays in flight; a
\* completion leaves the other loads in flight; and the completion of a valid
\* file sets the title and the text to its own, whether the load displayed
\* before it was started earlier or later.
C8_LastCompletionWins ==
  [][/\ \A file \in Files :
          (OnOpenResponse(file) /\ OtherPending(0)) =>
            loads' = Append(loads, [file |-> file, state |-> "Loading"])
     /\ \A i \in 1..MaxLoads :
          (Completes(i) /\ OtherPending(i)) =>
            /\ Len(loads') = Len(loads)
            /\ \A j \in 1..Len(loads) : j # i => loads'[j] = loads[j]
     /\ \A i \in 1..MaxLoads :
          (Completes(i) /\ loads[i].file \in ValidFiles
             /\ \E j \in 1..Len(loads) : j # i /\ loads[j].state = "Displayed") =>
            /\ title' = DisplayName(loads[i].file)
            /\ text' = DecodedContents[loads[i].file]]_vars

\* Two loads were in flight together and the one started first completed
\* last: the window shows the first, and the handler's first run of that step
\* was under the title of the second.
C8_Witness ==
  /\ Len(loads) = 2
  /\ loads[1].state = "Displayed"
  /\ loads[2].state = "Displayed"
  /\ DisplayName(loads[1].file) # DisplayName(loads[2].file)
  /\ title = DisplayName(loads[1].file)
  /\ text = DecodedContents[loads[1].file]
  /\ seen # <<>>
  /\ seen[1].title = DisplayName(loads[2].file)

\* C9: choosing a file starts exactly one load and nothing else starts one;
\* a load goes from in flight to exactly one of Displayed (a valid file) and
\* Failed (any other), by its completion callback, and stays there; and a
\* step that ends a load as Failed starts no other.
C9_LoadLifecycle ==
  [][/\ \A file \in Files :
          OnOpenResponse(file) =>
            loads' = Append(loads, [file |-> file, state |-> "Loading"])
     /\ Len(loads') # Len(loads) => \E file \in Files : OnOpenResponse(file)
     /\ Len(loads') >= Len(loads)
     /\ \A j \in 1..Len(loads) :
          /\ loads'[j].file = loads[j].file
          /\ \/ loads'[j].state = loads[j].state
             \/ /\ loads[j].state = "Loading"
                /\ Completes(j)
                /\ loads'[j].state =
                     IF loads[j].file \in ValidFiles THEN "Displayed" ELSE "Failed"
                /\ Len(loads') = Len(loads)
                /\ \A k \in 1..Len(loads) : k # j => loads'[k] = loads[k]
     /\ \A i \in 1..MaxLoads :
          Completes(i) => loads'[i].state \in {"Displayed", "Failed"}]_vars

\* One load has ended Displayed and another Failed, with the one line of the
\* failure printed.
C9_Witness ==
  /\ Len(loads) = 2
  /\ \E i, j \in 1..2 : loads[i].state = "Displayed" /\ loads[j].state = "Failed"
  /\ Len(diag) = 1

\* C10: in every state at most one file-selection dialog is open.
C10_AtMostOneDialog == dialogs <= 1

\* C11: the title a successful load sets is the display-name attribute when
\* g_file_query_info gave a GFileInfo and the base name when it gave none,
\* and it is never an absent name.
C11_TitleIsDisplayNameOrBasename ==
  [][\A i \in 1..MaxLoads :
       (Completes(i) /\ loads[i].file \in ValidFiles) =>
         /\ FileSystem[loads[i].file].info =>
              title' = FileSystem[loads[i].file].displayName
         /\ ~FileSystem[loads[i].file].info =>
              title' = FileSystem[loads[i].file].basename
         /\ title' # NoName]_vars

\* The label for the cursor at offset off of chars.
LabelFor(chars, off) ==
  "Ln " \o ToString(LineOf(chars, off) + 1)
    \o ", Col " \o ToString(ColOf(chars, off) + 1)

\* C12: handling a cursor-position notification changes the label and
\* nothing else.  Run on any reachable window, the handler returns the same
\* title, text and cursor; and a step in which the user moves the cursor
\* leaves the title, the text, the loads and the printed lines as they were,
\* puts the cursor where the user put it, and has run the handler once, on
\* that text and title, with the label for the new offset set in that step.
C12_HandlerChangesOnlyLabel ==
  /\ [](LET w == UpdateCursorPosition(Window) IN
          /\ w.title = title
          /\ w.text = text
          /\ w.cursor = cursor
          /\ w.label = LabelFor(text, cursor))
  /\ [][\A where \in 0..Len(text) : MoveCursor(where) =>
          /\ UNCHANGED <<title, text, loads, diag, dialogs>>
          /\ cursor' = where
          /\ seen' = <<[text |-> text, title |-> title]>>
          /\ label' = LabelFor(text, where)]_vars

\* The user has just moved the cursor off the start of a titled document,
\* with a load in flight: the handler ran once and the label is no longer
\* that of the start.
C12_Witness ==
  /\ seen = <<[text |-> text, title |-> title]>>
  /\ cursor > 0
  /\ label = LabelFor(text, cursor)
  /\ label # "Ln 1, Col 1"
  /\ \E i \in 1..Len(loads) :
       loads[i].state = "Displayed" /\ title = DisplayName(loads[i].file)
  /\ \E i \in 1..Len(loads) : loads[i].state = "Loading"

\* The loads that have ended Displayed, and whether every load has ended.
DisplayedLoads == {j \in 1..Len(loads) : loads[j].state = "Displayed"}

AllEnded == \A j \in 1..Len(loads) : loads[j].state # "Loading"

\* C13: with loads in flight together of which one succeeds and the others
\* fail, once all have ended the title is that of the one that succeeded, in
\* whichever order they completed; a completion that fails after the
\* successful one changes none of title, text, cursor and label, and the
\* successful completion after a failed one shows its own file.
C13_FailureNeverClobbers ==
  /\ []((AllEnded /\ Cardinality(DisplayedLoads) = 1) =>
          \A j \in DisplayedLoads : title = DisplayName(loads[j].file))
  /\ [][\A i \in 1..MaxLoads :
          /\ (Completes(i) /\ loads[i].file \notin ValidFiles
                /\ DisplayedLoads # {}) =>
               UNCHANGED <<title, text, cursor, label>>
          /\ (Completes(i) /\ loads[i].file \in ValidFiles
                /\ \E j \in 1..Len(loads) : loads[j].state = "Failed") =>
               /\ title' = DisplayName(loads[i].file)
               /\ text' = DecodedContents[loads[i].file]]_vars

\* Two loads were in flight together; one has failed and the other, a file
\* with text, is displayed: its title and text are in the window and the
\* line of the failure is printed.
C13_Witness ==
  /\ Len(loads) = 2
  /\ \E i, j \in 1..2 :
       /\ loads[i].state = "Failed"
       /\ loads[j].state = "Displayed"
       /\ title = DisplayName(loads[j].file)
       /\ text = DecodedContents[loads[j].file]
       /\ text # <<>>
  /\ Len(diag) = 1

\* C14: after every successful load, whatever the text and the cursor were
\* before and whether or not the file is empty, the label reads
\* "Ln 1, Col 1".
C14_LabelAtStartAfterLoad ==
  [][\A i \in 1..MaxLoads :
       (Completes(i) /\ loads[i].file \in ValidFiles) =>
         label' = "Ln 1, Col 1"]_vars

\* The empty file has just been loaded over an empty document: nothing was
\* deleted or inserted, the handler ran once, for the placing of the cursor,
\* and the label is no longer the template's.
C14_Witness ==
  /\ \E i \in 1..Len(loads) :
       /\ loads[i].state = "Displayed"
       /\ DecodedContents[loads[i].file] = <<>>
       /\ title = DisplayName(loads[i].file)
       /\ Len(seen) = 1
       /\ seen[1].text = <<>>
       /\ seen[1].title \in TemplateTitles
  /\ text = <<>>
  /\ label = "Ln 1, Col 1"

\* C15: no callback uses the window after it was destroyed, however the
\* teardown falls between a pending dialog or load and its callback.
C15_CallbacksOnLiveWindow == window # "used after destroy"

====
